---- MODULE Spec2Model ----
(***************************************************************************)
(* Model of infra/bisector.py (bisect, main) and infra/cifuzz/cifuzz.py    *)
(* (main, build_fuzzers, run_fuzzers).  The specifications share the       *)
(* variables: SpecBisect drives one run of the bisector script,            *)
(* SpecBisectFair the same under weak fairness, SpecCifuzz one run of the  *)
(* cifuzz script.  Indexes into commit_list are 0-based as in the Python   *)
(* code; TLA+ sequences are 1-based, so commit_list[i] is At(commit_list,i)*)
(***************************************************************************)
EXTENDS Integers, Sequences, FiniteSets, TLC

\* ------------------------------------------------------------------ bounds
\* Number of commits of the modelled linear history (commit 1 is the oldest).
MaxCommits == 6
\* Largest number of fuzz targets discovered in the out directory.
MaxTargets == 3
\* Largest value of |fuzz_seconds| given on the command line.
MaxBudget == 7

\* ------------------------------------------------------------ bisector.py
Commits == 1..MaxCommits

\* None, as returned for "no commit" / an unset local.
NoCommit == 0

\* Return codes of helper.reproduce_impl: 0 = the test case did not crash,
\* 1 = non-zero exit of the reproduction run.
Codes == {0, 1}

\* Value of a local that has not been assigned yet.
Unset == -1

\* Content of out_dir/testcase: no such file, or a file left by an earlier
\* run; a test case moved there is named by the path of its target (> 0).
NoFile == 0
StaleFile == -1

\* Outcomes of build_specified_commit.build_fuzzers_from_commit: it builds
\* the artifact, returns a failure status, or raises.
BuildOutcomes == {"ok", "fail", "raise"}

\* repo_manager.get_commit_list(commit_old, commit_new): the commits from
\* commit_new (index 0) down to commit_old (last index), both included.
GetCommitList(old, new) == [i \in 1..(new - old + 1) |-> new - i + 1]

\* get_commit_list raises when the endpoints are not related by ancestry.
RangeRelated(old, new) == old <= new

\* commit_list[i] with Python's 0-based index.
At(list, i) == list[i + 1]

\* The history counters of build and reproduce calls stop counting here; no
\* run of bisect comes near it.
MaxCount == MaxCommits + 2
Count(n) == IF n < MaxCount THEN n + 1 ELSE n

\* curr_idx = (old_idx + new_idx) // 2
MidpointLinear(old, new) == new + 1
MidpointStuck(old, new) == new
Midpoint(old, new) == (old + new) \div 2

\* The loop test of the Searching phase: old_idx - new_idx > 1.
KeepSearchingLoose(old, new) == old - new > 2
KeepSearching(old, new) == old - new > 1

\* The loop body's update: <<new_idx', old_idx'>>.
NarrowSwapped(expected, code, new, old, curr) ==
  IF expected = code THEN <<new, curr>> ELSE <<curr, old>>
Narrow(expected, code, new, old, curr) ==
  IF expected = code THEN <<curr, old>> ELSE <<new, curr>>

\* main's return value from bisect's result.
MainReturn(error_sha, old) ==
  IF error_sha = NoCommit THEN 1
  ELSE IF error_sha = old THEN 1
  ELSE 0

VARIABLES
  \* inputs of one bisector run
  commit_old, commit_new, cls, repo_ok,
  \* bisect's locals and the process
  pc, tmp_dir, commit_list, old_idx, new_idx, curr_idx,
  expected_error_code, error_code, artifact, result, raised,
  main_ret, exit_status,
  \* history
  builds, repros, anomalies, degenerate,
  \* inputs of one run_fuzzers call
  fuzzer_paths, fuzz_seconds, behavior, testcase_before, testcase_file,
  \* run_fuzzers' locals
  rpc, fuzzer_timeout, fuzz_targets, target_idx, run_ret, run_raised,
  \* history
  started,
  \* inputs of one run of the cifuzz script
  command, env_workspace, url_ok, src_ok, checkout_ok, compile_ok,
  \* cifuzz main, build_fuzzers and the process
  mpc, build_ret, compiled, main_raised, cifuzz_exit

bisectVars == <<commit_old, commit_new, cls, repo_ok, pc, tmp_dir, commit_list,
                old_idx, new_idx, curr_idx, expected_error_code, error_code,
                artifact, result, raised, main_ret, exit_status,
                builds, repros, anomalies, degenerate>>

cifuzzVars == <<fuzzer_paths, fuzz_seconds, behavior, testcase_before,
                testcase_file, rpc,
                fuzzer_timeout, fuzz_targets, target_idx, run_ret, run_raised,
                started>>

mainInputs == <<command, env_workspace, url_ok, src_ok, checkout_ok,
                compile_ok>>

mainVars == <<mainInputs, mpc, build_ret, compiled, main_raised, cifuzz_exit>>

vars == <<bisectVars, cifuzzVars, mainVars>>

bisectInputs == <<commit_old, commit_new, cls, repo_ok>>

\* State of the bisector before main calls bisect.
BisectIdle ==
  /\ pc = "start"
  /\ tmp_dir = FALSE
  /\ commit_list = <<>>
  /\ old_idx = Unset /\ new_idx = Unset /\ curr_idx = Unset
  /\ expected_error_code = Unset /\ error_code = Unset
  /\ artifact = NoCommit
  /\ result = NoCommit
  /\ raised = "none"
  /\ main_ret = Unset /\ exit_status = Unset
  /\ builds = 0 /\ repros = 0 /\ anomalies = {} /\ degenerate = FALSE

\* State of run_fuzzers before it is called.
CifuzzIdle ==
  /\ rpc = "start"
  /\ fuzzer_timeout = Unset
  /\ fuzz_targets = <<>>
  /\ target_idx = 0
  /\ run_ret = <<>>
  /\ run_raised = "none"
  /\ started = <<>>

\* State of the cifuzz script before main runs.
MainIdle ==
  /\ mpc = "parse"
  /\ build_ret = "none"
  /\ compiled = FALSE
  /\ main_raised = "none"
  /\ cifuzz_exit = Unset

\* Inputs of the cifuzz script when it is not the program that runs.
MainUnused ==
  /\ command = "none"
  /\ env_workspace = TRUE
  /\ url_ok = TRUE /\ src_ok = TRUE /\ checkout_ok = TRUE /\ compile_ok = TRUE

\* An exception leaves the with block: the temporary directory is removed
\* and the exception propagates out of bisect.
RaiseLeaking(exc) ==
  /\ raised' = exc
  /\ tmp_dir' = tmp_dir
  /\ pc' = "raised"
Raise(exc) ==
  /\ raised' = exc
  /\ tmp_dir' = FALSE
  /\ pc' = "raised"

\* return value from inside the with block.
Return(sha) ==
  /\ result' = sha
  /\ tmp_dir' = FALSE
  /\ pc' = "returned"

\* with tempfile.TemporaryDirectory() as tmp_dir:
EnterBisect ==
  /\ pc = "start"
  /\ tmp_dir' = TRUE
  /\ pc' = "detect"
  /\ UNCHANGED <<bisectInputs, commit_list, old_idx, new_idx, curr_idx,
                 expected_error_code, error_code, artifact, result, raised,
                 main_ret, exit_status, builds, repros, anomalies, degenerate>>
  /\ UNCHANGED <<cifuzzVars, mainVars>>

\* detect_main_repo and the ValueError when it finds no repository.
DetectMainRepo ==
  /\ pc = "detect"
  /\ IF repo_ok
       THEN /\ pc' = "commit_list"
            /\ UNCHANGED <<tmp_dir, raised>>
       ELSE Raise("ValueError")
  /\ UNCHANGED <<bisectInputs, commit_list, old_idx, new_idx, curr_idx,
                 expected_error_code, error_code, artifact, result,
                 main_ret, exit_status, builds, repros, anomalies, degenerate>>
  /\ UNCHANGED <<cifuzzVars, mainVars>>

\* commit_list = get_commit_list(...); old_idx = len - 1; new_idx = 0
EnumerateCommits ==
  /\ pc = "commit_list"
  /\ IF RangeRelated(commit_old, commit_new)
       THEN /\ commit_list' = GetCommitList(commit_old, commit_new)
            /\ old_idx' = Len(commit_list') - 1
            /\ new_idx' = 0
            /\ pc' = "build_new"
            /\ UNCHANGED <<tmp_dir, raised>>
       ELSE /\ Raise("RepoManagerError")
            /\ UNCHANGED <<commit_list, old_idx, new_idx>>
  /\ UNCHANGED <<bisectInputs, curr_idx, expected_error_code, error_code,
                 artifact, result, main_ret, exit_status, builds, repros,
                 anomalies, degenerate>>
  /\ UNCHANGED <<cifuzzVars, mainVars>>

\* build_fuzzers_from_commit(build_data, commit_list[idx], repo_manager); its
\* return value is discarded.  A build overwrites the single build location;
\* a build that fails leaves the previous artifact there or nothing at all.
BuildFuzzersFromCommit(idx, next) ==
  /\ builds' = Count(builds)
  /\ \E outcome \in BuildOutcomes :
       \/ /\ outcome = "ok"
          /\ artifact' = At(commit_list, idx)
          /\ pc' = next
          /\ UNCHANGED <<anomalies, tmp_dir, raised>>
       \/ /\ outcome = "fail"
          /\ artifact' \in {artifact, NoCommit}
          /\ anomalies' = anomalies \cup {"build_failed"}
          /\ pc' = next
          /\ UNCHANGED <<tmp_dir, raised>>
       \/ /\ outcome = "raise"
          /\ Raise("BuildError")
          /\ anomalies' = anomalies \cup {"build_raised"}
          /\ UNCHANGED artifact
  /\ UNCHANGED <<bisectInputs, commit_list, old_idx, new_idx, curr_idx,
                 expected_error_code, error_code, result, main_ret,
                 exit_status, repros, degenerate>>
  /\ UNCHANGED <<cifuzzVars, mainVars>>

\* What helper.reproduce_impl can return when the build location holds art:
\* pairs <<return code, what went wrong>>.  A run of the artifact returns the
\* code of its revision, or the other code when the reproduction is flaky; a
\* run that could not be launched returns a code as well.
ReproduceImpl(art) ==
  (IF art # NoCommit
     THEN {<<cls[art], {}>>, <<1 - cls[art], {"flaky"}>>}
     ELSE {})
  \cup {<<c, {"repro_failed"}>> : c \in Codes}

\* build at commit_list[new_idx]
BuildNew ==
  /\ pc = "build_new"
  /\ BuildFuzzersFromCommit(new_idx, "repro_new")

\* expected_error_code = helper.reproduce_impl(...)
ReproduceNew ==
  /\ pc = "repro_new"
  /\ repros' = Count(repros)
  /\ \/ \E r \in ReproduceImpl(artifact) :
          /\ expected_error_code' = r[1]
          /\ anomalies' = anomalies \cup r[2]
          /\ pc' = "build_old"
          /\ UNCHANGED <<tmp_dir, raised>>
     \/ /\ Raise("ReproductionError")
        /\ anomalies' = anomalies \cup {"repro_raised"}
        /\ UNCHANGED expected_error_code
  /\ UNCHANGED <<bisectInputs, commit_list, old_idx, new_idx, curr_idx,
                 error_code, artifact, result, main_ret, exit_status, builds,
                 degenerate>>
  /\ UNCHANGED <<cifuzzVars, mainVars>>

\* build at commit_list[old_idx]
BuildOld ==
  /\ pc = "build_old"
  /\ BuildFuzzersFromCommit(old_idx, "repro_old")

\* if expected_error_code == helper.reproduce_impl(...):
\*   return commit_list[old_idx]
ReproduceOld ==
  /\ pc = "repro_old"
  /\ repros' = Count(repros)
  /\ \/ \E r \in ReproduceImpl(artifact) :
          /\ error_code' = r[1]
          /\ anomalies' = anomalies \cup r[2]
          /\ IF expected_error_code = r[1]
               THEN /\ Return(At(commit_list, old_idx))
                    /\ degenerate' = TRUE
                    /\ UNCHANGED raised
               ELSE /\ pc' = "search"
                    /\ UNCHANGED <<tmp_dir, raised, result, degenerate>>
     \/ /\ Raise("ReproductionError")
        /\ anomalies' = anomalies \cup {"repro_raised"}
        /\ UNCHANGED <<error_code, result, degenerate>>
  /\ UNCHANGED <<bisectInputs, commit_list, old_idx, new_idx, curr_idx,
                 expected_error_code, artifact, main_ret, exit_status, builds>>
  /\ UNCHANGED <<cifuzzVars, mainVars>>

\* while old_idx - new_idx > 1: curr_idx = (old_idx + new_idx) // 2
\* and, when the loop ends, return commit_list[new_idx]
LoopTest ==
  /\ pc = "search"
  /\ IF KeepSearching(old_idx, new_idx)
       THEN /\ curr_idx' = Midpoint(old_idx, new_idx)
            /\ pc' = "build_mid"
            /\ UNCHANGED <<tmp_dir, result>>
       ELSE /\ Return(At(commit_list, new_idx))
            /\ UNCHANGED curr_idx
  /\ UNCHANGED <<bisectInputs, commit_list, old_idx, new_idx,
                 expected_error_code, error_code, artifact, raised, main_ret,
                 exit_status, builds, repros, anomalies, degenerate>>
  /\ UNCHANGED <<cifuzzVars, mainVars>>

\* build at commit_list[curr_idx]
BuildMid ==
  /\ pc = "build_mid"
  /\ BuildFuzzersFromCommit(curr_idx, "repro_mid")

\* error_code = helper.reproduce_impl(...); new_idx or old_idx = curr_idx
ReproduceMid ==
  /\ pc = "repro_mid"
  /\ repros' = Count(repros)
  /\ \/ \E r \in ReproduceImpl(artifact) :
          LET n == Narrow(expected_error_code, r[1], new_idx, old_idx, curr_idx)
          IN /\ error_code' = r[1]
             /\ anomalies' = anomalies \cup r[2]
             /\ new_idx' = n[1]
             /\ old_idx' = n[2]
             /\ pc' = "search"
             /\ UNCHANGED <<tmp_dir, raised>>
     \/ /\ Raise("ReproductionError")
        /\ anomalies' = anomalies \cup {"repro_raised"}
        /\ UNCHANGED <<error_code, new_idx, old_idx>>
  /\ UNCHANGED <<bisectInputs, commit_list, curr_idx, expected_error_code,
                 artifact, result, main_ret, exit_status, builds, degenerate>>
  /\ UNCHANGED <<cifuzzVars, mainVars>>

\* The exit status of "python3 infra/bisector.py" once main has returned ret:
\* the script calls main() and drops its return value.
ScriptExit(ret) == 0

\* main after bisect has returned: error_sha checks, then the script ends.
MainFinish ==
  /\ pc = "returned"
  /\ main_ret' = MainReturn(result, commit_old)
  /\ exit_status' = ScriptExit(main_ret')
  /\ pc' = "exited"
  /\ UNCHANGED <<bisectInputs, tmp_dir, commit_list, old_idx, new_idx,
                 curr_idx, expected_error_code, error_code, artifact, result,
                 raised, builds, repros, anomalies, degenerate>>
  /\ UNCHANGED <<cifuzzVars, mainVars>>

\* An exception out of bisect is not caught by main: the interpreter prints
\* the traceback and exits with status 1.
MainAbort ==
  /\ pc = "raised"
  /\ exit_status' = 1
  /\ pc' = "exited"
  /\ UNCHANGED <<bisectInputs, tmp_dir, commit_list, old_idx, new_idx,
                 curr_idx, expected_error_code, error_code, artifact, result,
                 raised, main_ret, builds, repros, anomalies, degenerate>>
  /\ UNCHANGED <<cifuzzVars, mainVars>>

InitBisect ==
  /\ commit_old \in Commits
  /\ commit_new \in Commits
  /\ cls \in [Commits -> Codes]
  /\ repo_ok \in BOOLEAN
  /\ BisectIdle
  /\ fuzzer_paths = <<>>
  /\ fuzz_seconds = 0
  /\ behavior = <<>>
  /\ testcase_before = NoFile
  /\ testcase_file = NoFile
  /\ CifuzzIdle
  /\ MainUnused
  /\ MainIdle

NextBisect ==
  \/ EnterBisect
  \/ DetectMainRepo
  \/ EnumerateCommits
  \/ BuildNew
  \/ ReproduceNew
  \/ BuildOld
  \/ ReproduceOld
  \/ LoopTest
  \/ BuildMid
  \/ ReproduceMid
  \/ MainFinish
  \/ MainAbort

SpecBisect == InitBisect /\ [][NextBisect]_vars

\* The runs of bisect over every sequence of oracle answers: a reproduction
\* may return either code whatever the revision, so one classification of
\* the revisions stands for all of them.
InitBisectAnswers ==
  /\ InitBisect
  /\ cls = [c \in Commits |-> 0]

\* Every call of the single-threaded script returns or raises, so a run that
\* can take a step takes one.
SpecBisectFair ==
  InitBisectAnswers /\ [][NextBisect]_vars /\ WF_vars(NextBisect)

\* ------------------------------------------------------ cifuzz/cifuzz.py
\* What one target's start() does when it is run.
Kinds == {"crash", "clean", "tc_only", "trace_only", "fail", "raise"}

\* The pair (test_case, stack_trace) start() returns: a test case is named
\* by its target's path and None is 0, a stack trace is text and None is "".
\* A run that could not be launched returns without a crash result.
StartResult(kind, path) ==
  CASE kind = "crash"      -> <<path, "trace">>
    [] kind = "clean"      -> <<0, "">>
    [] kind = "tc_only"    -> <<path, "">>
    [] kind = "trace_only" -> <<0, "trace">>
    [] kind = "fail"       -> <<0, "">>

\* if not fuzzer_paths
NoFuzzersReturn == <<FALSE, FALSE>>
NoFuzzersIgnored(paths) == FALSE
NoFuzzers(paths) == Len(paths) = 0

\* int(a / b) for b > 0: true division, then truncation toward zero.
PyIntDivRounded(a, b) == (2 * a + b) \div (2 * b)
PyIntDiv(a, b) == IF a >= 0 THEN a \div b ELSE -((-a) \div b)

\* The else branch of "if not test_case or not stack_trace".
IsCrashNever(test_case, stack_trace) == FALSE
IsCrashEither(test_case, stack_trace) == ~(test_case = 0 /\ stack_trace = "")
IsCrash(test_case, stack_trace) == ~(test_case = 0 \/ stack_trace = "")

\* shutil.move(test_case, out_dir/testcase): the content of the testcase
\* file afterwards.
ShutilMoveNothing(test_case, file) == file
ShutilMove(test_case, file) == test_case

\* for target in fuzz_targets: the next position of the iteration.
NextTargetSkipping(i) == i + 2
NextTarget(i) == i + 1

cifuzzInputs == <<fuzzer_paths, fuzz_seconds, behavior, testcase_before>>

\* run_fuzzers up to the loop: the empty check, fuzzer_timeout and the list
\* of FuzzTarget objects.
EnterRunFuzzers ==
  /\ mpc = "run"
  /\ rpc = "start"
  /\ IF NoFuzzers(fuzzer_paths)
       THEN /\ run_ret' = NoFuzzersReturn
            /\ rpc' = "returned"
            /\ UNCHANGED <<fuzzer_timeout, fuzz_targets, target_idx,
                           run_raised>>
       ELSE IF Len(fuzzer_paths) = 0
         THEN /\ run_raised' = "ZeroDivisionError"
              /\ rpc' = "raised"
              /\ UNCHANGED <<fuzzer_timeout, fuzz_targets, target_idx,
                             run_ret>>
         ELSE /\ fuzzer_timeout' = PyIntDiv(fuzz_seconds, Len(fuzzer_paths))
              /\ fuzz_targets' =
                   [i \in 1..Len(fuzzer_paths) |->
                      [path |-> fuzzer_paths[i], duration |-> fuzzer_timeout']]
              /\ target_idx' = 1
              /\ rpc' = "loop"
              /\ UNCHANGED <<run_ret, run_raised>>
  /\ UNCHANGED <<cifuzzInputs, testcase_file, started>>
  /\ UNCHANGED <<bisectVars, mainVars>>

\* One iteration: target.start(), then either "finished running" or the
\* move of the test case to out_dir/testcase and return True, True.
StartTarget ==
  /\ rpc = "loop"
  /\ target_idx <= Len(fuzz_targets)
  /\ LET target == fuzz_targets[target_idx]
         kind == behavior[target_idx]
     IN /\ started' = Append(started, <<target_idx, target.duration>>)
        /\ IF kind = "raise"
             THEN /\ run_raised' = "Exception"
                  /\ rpc' = "raised"
                  /\ UNCHANGED <<target_idx, testcase_file, run_ret>>
             ELSE LET r == StartResult(kind, target.path) IN
                  IF IsCrash(r[1], r[2])
                    THEN /\ testcase_file' = ShutilMove(r[1], testcase_file)
                         /\ run_ret' = <<TRUE, TRUE>>
                         /\ rpc' = "returned"
                         /\ UNCHANGED <<target_idx, run_raised>>
                    ELSE /\ target_idx' = NextTarget(target_idx)
                         /\ UNCHANGED <<testcase_file, run_ret, rpc,
                                        run_raised>>
  /\ UNCHANGED <<cifuzzInputs, fuzzer_timeout, fuzz_targets>>
  /\ UNCHANGED <<bisectVars, mainVars>>

\* The loop is exhausted: return True, False.
FinishRunFuzzers ==
  /\ rpc = "loop"
  /\ target_idx > Len(fuzz_targets)
  /\ run_ret' = <<TRUE, FALSE>>
  /\ rpc' = "returned"
  /\ UNCHANGED <<cifuzzInputs, testcase_file, fuzzer_timeout, fuzz_targets,
                 target_idx, run_raised, started>>
  /\ UNCHANGED <<bisectVars, mainVars>>

\* class Status: the return codes of the cifuzz module.
SUCCESS == 0
ERROR == 1
BUG_FOUND == 2

\* parser.error of argparse ends the process with this status.
ArgparseExit == 2

\* What can follow "cifuzz.py": a known subcommand, nothing at all, or a
\* word that is no subcommand.
Commands == {"build_fuzzers", "run_fuzzers", "none", "bogus"}

\* main's return value after run_fuzzers has returned.
RunStatus(run_success, bug_found) ==
  IF bug_found THEN BUG_FOUND
  ELSE IF run_success THEN SUCCESS
  ELSE ERROR

\* main's return value after build_fuzzers has returned.
BuildStatus(built) == IF built = "true" THEN SUCCESS ELSE ERROR

\* What build_fuzzers does when checkout_commit raises RepoManagerError: it
\* logs the error and goes on to the compile step.
AfterFailedCheckout == "build_compile"

\* sys.exit(main()): the process ends with main's return value.
ExitMain(code) ==
  /\ cifuzz_exit' = code
  /\ mpc' = "exited"

\* args = parser.parse_args()
ParseArgs ==
  /\ mpc = "parse"
  /\ IF command = "bogus"
       THEN ExitMain(ArgparseExit)
       ELSE mpc' = "env" /\ UNCHANGED cifuzz_exit
  /\ UNCHANGED <<mainInputs, build_ret, compiled, main_raised>>
  /\ UNCHANGED <<bisectVars, cifuzzVars>>

\* if 'GITHUB_WORKSPACE' not in os.environ: return Status.ERROR.value
CheckWorkspace ==
  /\ mpc = "env"
  /\ IF env_workspace
       THEN mpc' = "dispatch" /\ UNCHANGED cifuzz_exit
       ELSE ExitMain(ERROR)
  /\ UNCHANGED <<mainInputs, build_ret, compiled, main_raised>>
  /\ UNCHANGED <<bisectVars, cifuzzVars>>

\* if args.command == 'build_fuzzers' ... if args.command == 'run_fuzzers'
\* ... return Status.ERROR.value
Dispatch ==
  /\ mpc = "dispatch"
  /\ IF command = "build_fuzzers"
       THEN mpc' = "build_detect" /\ UNCHANGED cifuzz_exit
       ELSE IF command = "run_fuzzers"
         THEN mpc' = "run" /\ UNCHANGED cifuzz_exit
         ELSE ExitMain(ERROR)
  /\ UNCHANGED <<mainInputs, build_ret, compiled, main_raised>>
  /\ UNCHANGED <<bisectVars, cifuzzVars>>

\* build_fuzzers: detect_main_repo, get_env_var; no $SRC returns False, an
\* undetermined repository is only logged.
BuildDetect ==
  /\ mpc = "build_detect"
  /\ IF src_ok
       THEN mpc' = "build_checkout" /\ UNCHANGED build_ret
       ELSE mpc' = "build_done" /\ build_ret' = "false"
  /\ UNCHANGED <<mainInputs, compiled, main_raised, cifuzz_exit>>
  /\ UNCHANGED <<bisectVars, cifuzzVars>>

\* build_fuzzers: RepoManager(...) and checkout_commit in its try block.
\* With no repository URL the RepoManager constructor may raise, which ends
\* the script with a traceback and status 1.
BuildCheckout ==
  /\ mpc = "build_checkout"
  /\ \/ /\ url_ok /\ checkout_ok
        /\ mpc' = "build_compile"
        /\ UNCHANGED <<main_raised, cifuzz_exit>>
     \/ /\ ~(url_ok /\ checkout_ok)
        /\ mpc' = AfterFailedCheckout
        /\ UNCHANGED <<main_raised, cifuzz_exit>>
     \/ /\ ~url_ok
        /\ main_raised' = "Exception"
        /\ ExitMain(1)
  /\ UNCHANGED <<mainInputs, build_ret, compiled>>
  /\ UNCHANGED <<bisectVars, cifuzzVars>>

\* build_fuzzers: the docker command that compiles; a non-zero
\* helper.docker_run returns False, otherwise True.
BuildCompile ==
  /\ mpc = "build_compile"
  /\ compiled' = TRUE
  /\ build_ret' = IF compile_ok THEN "true" ELSE "false"
  /\ mpc' = "build_done"
  /\ UNCHANGED <<mainInputs, main_raised, cifuzz_exit>>
  /\ UNCHANGED <<bisectVars, cifuzzVars>>

\* if build_fuzzers(...): return SUCCESS, else ERROR
MainAfterBuild ==
  /\ mpc = "build_done"
  /\ ExitMain(BuildStatus(build_ret))
  /\ UNCHANGED <<mainInputs, build_ret, compiled, main_raised>>
  /\ UNCHANGED <<bisectVars, cifuzzVars>>

\* run_success, bug_found = run_fuzzers(args, out_dir) and the returns
\* that follow it.
MainAfterRun ==
  /\ mpc = "run"
  /\ rpc = "returned"
  /\ ExitMain(RunStatus(run_ret[1], run_ret[2]))
  /\ UNCHANGED <<mainInputs, build_ret, compiled, main_raised>>
  /\ UNCHANGED <<bisectVars, cifuzzVars>>

\* An exception out of run_fuzzers is not caught: traceback and status 1.
MainRunAbort ==
  /\ mpc = "run"
  /\ rpc = "raised"
  /\ main_raised' = run_raised
  /\ ExitMain(1)
  /\ UNCHANGED <<mainInputs, build_ret, compiled>>
  /\ UNCHANGED <<bisectVars, cifuzzVars>>

InitCifuzz ==
  /\ command \in Commands
  /\ env_workspace \in BOOLEAN
  /\ IF command = "build_fuzzers"
       THEN /\ url_ok \in BOOLEAN /\ src_ok \in BOOLEAN
            /\ checkout_ok \in BOOLEAN /\ compile_ok \in BOOLEAN
       ELSE /\ url_ok = TRUE /\ src_ok = TRUE
            /\ checkout_ok = TRUE /\ compile_ok = TRUE
  /\ IF command = "run_fuzzers"
       THEN /\ \E n \in 0..MaxTargets :
                 /\ fuzzer_paths = [i \in 1..n |-> 10 + i]
                 /\ behavior \in [1..n -> Kinds]
            /\ fuzz_seconds \in (-MaxBudget)..MaxBudget
            /\ testcase_before \in {NoFile, StaleFile}
       ELSE /\ fuzzer_paths = <<>>
            /\ behavior = <<>>
            /\ fuzz_seconds = 0
            /\ testcase_before = NoFile
  /\ testcase_file = testcase_before
  /\ CifuzzIdle
  /\ MainIdle
  /\ commit_old = 1
  /\ commit_new = 1
  /\ cls = [c \in Commits |-> 0]
  /\ repo_ok = TRUE
  /\ BisectIdle

NextCifuzz ==
  \/ ParseArgs
  \/ CheckWorkspace
  \/ Dispatch
  \/ BuildDetect
  \/ BuildCheckout
  \/ BuildCompile
  \/ MainAfterBuild
  \/ EnterRunFuzzers
  \/ StartTarget
  \/ FinishRunFuzzers
  \/ MainAfterRun
  \/ MainRunAbort

SpecCifuzz == InitCifuzz /\ [][NextCifuzz]_vars

\* ------------------------------------------------- properties of bisect
\* The run went without any build or reproduction failure and every
\* reproduction returned the code of the revision it was asked about.
FaultFree == anomalies = {}

\* bisect has returned a value (main may have finished as well).
BisectReturned == pc \in {"returned", "exited"} /\ raised = "none"

\* The 0-based indexes i at which the classification changes between
\* commit_list[i] and commit_list[i + 1].
Transitions ==
  {i \in 0..(Len(commit_list) - 2) :
     cls[At(commit_list, i)] # cls[At(commit_list, i + 1)]}

OneTransition == Cardinality(Transitions) = 1

RECURSIVE CeilLog2(_)
\* The least k with 2^k >= n, for n >= 1.
CeilLog2(n) == IF n <= 1 THEN 0 ELSE 1 + CeilLog2((n + 1) \div 2)

\* ceil(log2(N-1)) + 2 for a range of length N >= 2.
ProbeBound(n) == CeilLog2(n - 1) + 2

\* C1: for a range of length N >= 2 and a deterministic classification with
\* exactly one transition, bisect returns the revision right before the
\* transition, which is the oldest revision classified like the newest one;
\* [A,B,C,D] with [1,1,0,0] yields B and [A,B,C] with [1,0,0] yields A.
C1_ReturnsRevisionBeforeTransition ==
  (BisectReturned /\ FaultFree /\ Len(commit_list) >= 2 /\ OneTransition) =>
     /\ \E t \in Transitions : result = At(commit_list, t)
     /\ cls[result] = cls[At(commit_list, 0)]
     /\ \A j \in 0..(Len(commit_list) - 1) :
          (cls[At(commit_list, j)] = cls[At(commit_list, 0)])
             => At(commit_list, j) >= result
     /\ (/\ commit_list = <<4, 3, 2, 1>>
         /\ cls[4] = 1 /\ cls[3] = 1 /\ cls[2] = 0 /\ cls[1] = 0) => result = 3
     /\ (/\ commit_list = <<3, 2, 1>>
         /\ cls[3] = 1 /\ cls[2] = 0 /\ cls[1] = 0) => result = 3

\* A fault-free run over [4,3,2,1] classified [1,1,0,0] has returned 3.
C1_Witness ==
  /\ pc = "returned" /\ FaultFree
  /\ commit_list = <<4, 3, 2, 1>>
  /\ cls[4] = 1 /\ cls[3] = 1 /\ cls[2] = 0 /\ cls[1] = 0
  /\ repros = 4
  /\ result = 3

\* C2: when commit_old = commit_new the range has one revision and bisect
\* returns it without any build or reproduction.
C2_SingleRevisionNoBuild ==
  (commit_old = commit_new /\ Len(commit_list) = 1) =>
     /\ builds = 0
     /\ repros = 0
     /\ pc \in {"build_new", "returned", "exited"}
     /\ (pc \in {"returned", "exited"} => result = commit_old)

Failures == {"build_failed", "build_raised", "repro_failed", "repro_raised"}

\* C3: once a build or a reproduction has failed, bisect has aborted with an
\* error: it returns no revision and takes no further step of the search.
C3_FailureIsFatal ==
  (anomalies \cap Failures # {}) =>
     /\ pc \in {"raised", "exited"}
     /\ raised # "none"
     /\ result = NoCommit

\* The returned revision has the baseline classification and the next older
\* revision of the range has the other one.
TrueBoundary(sha) ==
  \E t \in Transitions :
     /\ sha = At(commit_list, t)
     /\ cls[sha] = cls[commit_new]

\* C4: when the oldest and the newest revision are classified alike, bisect
\* returns the oldest revision and the script exits 1; it exits 0 only with
\* a true boundary, and a run whose ends differ never returns the oldest
\* revision.
C4_DegenerateDistinguished ==
  (pc = "exited" /\ raised = "none" /\ FaultFree) =>
     /\ (cls[commit_old] = cls[commit_new]) =>
           (degenerate /\ result = commit_old /\ exit_status = 1)
     /\ (exit_status = 0) =>
           (cls[commit_old] # cls[commit_new] /\ TrueBoundary(result))
     /\ (cls[commit_old] # cls[commit_new]) =>
           (~degenerate /\ result # commit_old)

\* What main itself returns does tell the two outcomes apart.
MainReturnDistinguishes ==
  (pc = "exited" /\ raised = "none" /\ FaultFree) =>
     /\ (cls[commit_old] = cls[commit_new]) =>
           (degenerate /\ result = commit_old /\ main_ret = 1)
     /\ (main_ret = 0) =>
           (cls[commit_old] # cls[commit_new] /\ TrueBoundary(result))
     /\ (cls[commit_old] # cls[commit_new]) =>
           (~degenerate /\ result # commit_old /\ main_ret = 0)

\* C5: for a range of length N >= 2 with exactly one transition a fault-free
\* run performs at most ceil(log2(N-1)) + 2 builds and as many reproductions.
C5_ProbeCountBound ==
  (FaultFree /\ Len(commit_list) >= 2 /\ OneTransition) =>
     /\ builds <= ProbeBound(Len(commit_list))
     /\ repros <= ProbeBound(Len(commit_list))

\* A fault-free run over six revisions with one transition that needed the
\* full ceil(log2(5)) + 2 = 5 probes.
C5_Witness ==
  /\ pc = "returned" /\ FaultFree
  /\ Len(commit_list) = 6 /\ OneTransition
  /\ builds = 5 /\ repros = 5
  /\ ProbeBound(6) = 5

\* The revisions of the enumerated range.
RangeCommits == {commit_list[i] : i \in 1..Len(commit_list)}

\* bisect is in its Searching phase.
Searching == pc \in {"search", "build_mid", "repro_mid"}

\* C14: once the cursor is set new_idx < old_idx holds, for every range
\* length and every sequence of oracle answers, and the Searching phase
\* ends with old_idx - new_idx = 1.
C14_CursorInvariant ==
  /\ (new_idx # Unset) => new_idx < old_idx
  /\ (BisectReturned /\ ~degenerate) => old_idx - new_idx = 1

\* For ranges of at least two revisions the cursor invariant does hold.
CursorInvariantFromTwo ==
  (Len(commit_list) >= 2) =>
     /\ new_idx < old_idx
     /\ (BisectReturned /\ ~degenerate) => old_idx - new_idx = 1

\* A step of the Searching phase leaves one index alone and moves the other
\* strictly toward it.
CursorStepsNarrow ==
  [][(pc = "repro_mid" /\ pc' = "search") =>
       /\ new_idx' >= new_idx /\ old_idx' <= old_idx
       /\ (new_idx' = new_idx) # (old_idx' = old_idx)
       /\ old_idx' - new_idx' < old_idx - new_idx
       /\ new_idx' < old_idx']_vars

\* C15: in a failure-free deterministic run, from the entry of the Searching
\* phase to the return after it, the revision at new_idx has the
\* classification observed at index 0 and the revision at old_idx the other.
C15_CursorClassification ==
  (FaultFree /\ (Searching \/ (BisectReturned /\ ~degenerate))) =>
     /\ expected_error_code = cls[At(commit_list, 0)]
     /\ cls[At(commit_list, new_idx)] = expected_error_code
     /\ cls[At(commit_list, old_idx)] # expected_error_code

\* A failure-free search that has moved both ends of the cursor.
C15_Witness ==
  /\ pc = "search" /\ FaultFree
  /\ new_idx > 0
  /\ old_idx < Len(commit_list) - 1
  /\ repros = 4

\* C16: for a range of N >= 2 revisions and a deterministic classification,
\* monotonic or not, whose ends differ, bisect returns commit_list[i] for
\* an i where the classification changes: i has the classification of index
\* 0 and i + 1 has the other.
C16_ResultIsTransition ==
  (/\ BisectReturned /\ FaultFree
   /\ Len(commit_list) >= 2
   /\ cls[commit_new] # cls[commit_old]) =>
     \E i \in 0..(Len(commit_list) - 2) :
        /\ result = At(commit_list, i)
        /\ cls[At(commit_list, i)] = cls[At(commit_list, 0)]
        /\ cls[At(commit_list, i + 1)] # cls[At(commit_list, 0)]

\* A failure-free run over six revisions whose classification changes five
\* times has returned.
C16_Witness ==
  /\ pc = "returned" /\ FaultFree /\ ~degenerate
  /\ Len(commit_list) = 6
  /\ Cardinality(Transitions) = 5

\* C17: a reproduction follows the build of the revision being probed with
\* nothing in between, and what it runs is the artifact built from that
\* revision.
C17_ReproducesFreshBuild ==
  /\ (pc \in {"repro_new", "repro_old", "repro_mid"}) => builds = repros + 1
  /\ (pc \in {"build_new", "build_old", "build_mid", "search"})
       => builds = repros
  /\ (pc = "repro_new") => artifact = At(commit_list, new_idx)
  /\ (pc = "repro_old") => artifact = At(commit_list, old_idx)
  /\ (pc = "repro_mid") => artifact = At(commit_list, curr_idx)

\* The calls of build and reproduce do alternate, whatever they return.
BuildsAlternateWithReproductions ==
  /\ (pc \in {"repro_new", "repro_old", "repro_mid"}) => builds = repros + 1
  /\ (pc \in {"build_new", "build_old", "build_mid", "search"})
       => builds = repros

\* C18: every run of bisect ends, whatever the oracle answers; when no call
\* raised, it ends with a revision of the range returned.
C18_Terminates ==
  <>(/\ pc = "exited"
     /\ (raised = "none") => result \in RangeCommits)

\* A run over six revisions with a flaky answer has returned a revision of
\* the range after a search.
C18_Witness ==
  /\ pc = "exited" /\ raised = "none"
  /\ "flaky" \in anomalies
  /\ Len(commit_list) = 6
  /\ repros >= 4
  /\ result \in RangeCommits

\* C20: the temporary directory exists exactly while bisect is inside its
\* with block; it is gone after a return and after any exception.
C20_TmpDirRemoved ==
  /\ (pc \in {"returned", "raised", "exited"}) => ~tmp_dir
  /\ (pc \notin {"start", "returned", "raised", "exited"}) => tmp_dir

\* A reproduction inside the search loop raised and the directory is gone.
C20_Witness ==
  /\ pc = "raised"
  /\ raised = "ReproductionError"
  /\ repros >= 3
  /\ ~tmp_dir

\* -------------------------------------------- properties of run_fuzzers
\* The targets started so far are the first ones of the list, in listed
\* order, each started once.
InListedOrder == \A i \in 1..Len(started) : started[i][1] = i

RunReturned == rpc = "returned"

\* C6: the targets run one at a time in listed order; a target whose run
\* detects a crash is the last one started, run_fuzzers has then returned
\* (True, True), and a run that reports a crash reports the crash of the
\* last started target only.
C6_FirstCrashWins ==
  /\ InListedOrder
  /\ \A i \in 1..Len(started) :
       (behavior[i] = "crash") =>
          /\ i = Len(started)
          /\ RunReturned
          /\ run_ret = <<TRUE, TRUE>>
  /\ (RunReturned /\ run_ret[2]) =>
       /\ run_ret[1]
       /\ Len(started) >= 1
       /\ behavior[Len(started)] = "crash"
       /\ Cardinality({i \in 1..Len(started) : behavior[i] = "crash"}) = 1

\* Three targets, the second and the third would crash: the run returned
\* (True, True) after starting two targets.
C6_Witness ==
  /\ RunReturned
  /\ Len(fuzzer_paths) = 3
  /\ behavior[1] = "clean" /\ behavior[2] = "crash" /\ behavior[3] = "crash"
  /\ Len(started) = 2
  /\ run_ret = <<TRUE, TRUE>>

\* Every target of the batch was started once, in listed order, for its
\* allotted duration.
AllStarted ==
  /\ Len(started) = Len(fuzzer_paths)
  /\ \A i \in 1..Len(started) :
       started[i] = <<i, fuzz_targets[i].duration>>

\* C7: when run_fuzzers returns from a non-empty batch in which no target
\* crashes, it has started every target once, in listed order, for its
\* share, and returns (True, False); it returns (True, False) in no other way.
C7_NoCrashRunsAll ==
  /\ (/\ RunReturned
      /\ Len(fuzzer_paths) > 0
      /\ \A i \in 1..Len(fuzzer_paths) : behavior[i] # "crash")
       => (AllStarted /\ run_ret = <<TRUE, FALSE>>)
  /\ (RunReturned /\ run_ret = <<TRUE, FALSE>>)
       => (AllStarted /\ Len(fuzzer_paths) > 0)

\* Three targets ran without a crash and run_fuzzers returned (True, False).
C7_Witness ==
  /\ RunReturned
  /\ Len(fuzzer_paths) = 3
  /\ \A i \in 1..3 : behavior[i] = "clean"
  /\ Len(started) = 3
  /\ run_ret = <<TRUE, FALSE>>

\* C8: with no fuzz target, run_fuzzers returns (False, False) at once: no
\* target is started, no timeout is computed, nothing is raised and the
\* testcase file is as it was.
C8_EmptyBatch ==
  (Len(fuzzer_paths) = 0 /\ rpc # "start") =>
     /\ RunReturned
     /\ run_ret = <<FALSE, FALSE>>
     /\ run_raised = "none"
     /\ fuzzer_timeout = Unset
     /\ fuzz_targets = <<>>
     /\ started = <<>>
     /\ testcase_file = testcase_before

\* run_fuzzers has returned from an empty batch with a positive budget.
C8_Witness ==
  /\ RunReturned
  /\ Len(fuzzer_paths) = 0
  /\ fuzz_seconds > 0
  /\ run_ret = <<FALSE, FALSE>>

\* C9: a target whose run fails is the last one started: run_fuzzers aborts
\* there and does not report a completed run.
C9_RunFailureAborts ==
  \A i \in 1..Len(started) :
     (behavior[i] \in {"fail", "raise"}) =>
        /\ i = Len(started)
        /\ rpc \in {"returned", "raised"}
        /\ RunReturned => run_ret[1] = FALSE

CrashReported == rpc = "returned" /\ run_ret[2]

\* Every step of the requested command succeeded and no crash was found.
CommandSucceeded ==
  /\ env_workspace
  /\ \/ /\ command = "build_fuzzers"
        /\ url_ok /\ src_ok /\ checkout_ok /\ compile_ok
        /\ build_ret = "true"
     \/ /\ command = "run_fuzzers"
        /\ rpc = "returned"
        /\ run_ret = <<TRUE, FALSE>>
        /\ \A i \in 1..Len(started) : behavior[i] \notin {"fail", "raise"}

\* C11: the exit code of the cifuzz script is 2 exactly when run_fuzzers
\* reports a crash, 0 exactly when the requested command succeeded without
\* a crash, and 1 in every other case.
C11_ExitCodes ==
  (mpc = "exited") =>
     /\ cifuzz_exit \in {SUCCESS, ERROR, BUG_FOUND}
     /\ (cifuzz_exit = BUG_FOUND) <=> CrashReported
     /\ (cifuzz_exit = SUCCESS) <=> CommandSucceeded

\* Once parse_args has accepted the command line, the exit code follows
\* what build_fuzzers or run_fuzzers returned.
ExitCodeFollowsReturn ==
  (mpc = "exited" /\ command # "bogus") =>
     /\ (cifuzz_exit = BUG_FOUND) <=> CrashReported
     /\ (cifuzz_exit = SUCCESS) <=>
           \/ build_ret = "true"
           \/ (rpc = "returned" /\ run_ret = <<TRUE, FALSE>>)
     /\ cifuzz_exit \in {SUCCESS, ERROR, BUG_FOUND}

\* C12: build_fuzzers returns True only when every step succeeded, it never
\* compiles after a failed checkout, and a run of the build command in which
\* a step failed exits 1.
C12_BuildFailuresReported ==
  /\ (build_ret = "true") =>
       (url_ok /\ src_ok /\ checkout_ok /\ compile_ok)
  /\ compiled => (url_ok /\ checkout_ok)
  /\ (/\ mpc = "exited" /\ command = "build_fuzzers" /\ env_workspace
      /\ ~(url_ok /\ src_ok /\ checkout_ok /\ compile_ok))
       => cifuzz_exit = ERROR

\* The first target of the list, in listed order, whose run yields a crash.
FirstCrashing ==
  CHOOSE i \in 1..Len(fuzzer_paths) :
     /\ behavior[i] = "crash"
     /\ \A j \in 1..(i - 1) : behavior[j] # "crash"

\* C13: when run_fuzzers returns crashFound = True the testcase file holds
\* the test case of the first crashing target; when it returns
\* crashFound = False the testcase file is as it was before the call.
C13_TestcasePersisted ==
  (rpc = "returned") =>
     /\ run_ret[2] =>
          /\ \E i \in 1..Len(fuzzer_paths) : behavior[i] = "crash"
          /\ testcase_file = fuzzer_paths[FirstCrashing]
          /\ testcase_file # testcase_before
     /\ ~run_ret[2] => testcase_file = testcase_before

\* The second of three targets crashed over a testcase file left by an
\* earlier run: the file now holds the second target's test case.
C13_Witness ==
  /\ rpc = "returned"
  /\ run_ret = <<TRUE, TRUE>>
  /\ Len(fuzzer_paths) = 3
  /\ behavior[1] = "tc_only" /\ behavior[2] = "crash" /\ behavior[3] = "crash"
  /\ testcase_before = StaleFile
  /\ testcase_file = fuzzer_paths[2]

Partial == {"tc_only", "trace_only"}

\* C19: a result is a crash only when test case and stack trace are both
\* non-empty; after a target that returned only one of them the loop goes
\* on to the next target, the testcase file is untouched by it, and the run
\* ends without a crash unless a later target crashes.
C19_PartialResultIsNoCrash ==
  /\ CrashReported =>
       LET r == StartResult(behavior[Len(started)],
                            fuzzer_paths[Len(started)])
       IN r[1] # 0 /\ r[2] # ""
  /\ \A i \in 1..Len(started) :
       (behavior[i] \in Partial) =>
          /\ (i = Len(started)) =>
                /\ rpc \in {"loop", "returned"}
                /\ target_idx = i + 1
                /\ testcase_file = testcase_before
                /\ (rpc = "returned") => run_ret = <<TRUE, FALSE>>

\* A test case without a stack trace and a stack trace without a test case:
\* both targets ran and run_fuzzers returned (True, False).
C19_Witness ==
  /\ rpc = "returned"
  /\ Len(fuzzer_paths) = 2
  /\ behavior[1] = "tc_only" /\ behavior[2] = "trace_only"
  /\ Len(started) = 2
  /\ run_ret = <<TRUE, FALSE>>
====
